---- MODULE Spec2Model ----
(***************************************************************************)
(* Araknid: the block graph (blocks, connection points, connection lines,  *)
(* block-level links), the canvas operations that mutate it, and the code  *)
(* generator that linearises it into C text; and the compiler manager that *)
(* hands the text to a compile process and runs the compiled program.      *)
(*                                                                         *)
(* Text is a sequence of tokens.  "\n" is always a token of its own and no *)
(* other token holds a newline; every other token is a piece of one line.  *)
(* Input fields keep the default values the block constructors give them,  *)
(* but for the "value" field of a PrintStringBlock, which can be typed in: *)
(* its text is a sequence of pieces in which a quote is its own piece.     *)
(***************************************************************************)
EXTENDS Integers, Sequences, FiniteSets, TLC

VARIABLES
    kind,              \* kind[b]: class name of block b, for every block created so far
    blocks,            \* BlockManager.blocks
    scene_blocks,      \* the Block items of the QGraphicsScene
    scene_lines,       \* the ConnectionLine items of the QGraphicsScene
    connected_to,      \* ConnectionPoint.connected_to, per point
    connection_line,   \* ConnectionPoint.connection_line, per point
    connected_blocks,  \* Block.connected_blocks, per block and role
    undo_stack,        \* BlockCanvas.undo_stack
    redo_stack,        \* BlockCanvas.redo_stack
    connects,          \* connect_to calls made so far
    loads,             \* load_blocks calls made so far
    inputs,            \* the text of the "value" field a PrintStringBlock shows, per block
    pc,                \* "idle", or the handler that is inside a generation pass
    at,                \* position inside _has_return_statement
    current,           \* the loop variable of _has_return_statement
    code,              \* CodeView text (and CompilerPanel.latest_code)
    exported,          \* text written by the last _export_code
    processed_blocks,  \* CodeGenerator.generate_code's processed_blocks at the end of the last pass
    visits,            \* the Block.generate_code invocations of the last pass, in call order
    compile_process,   \* CompilerManager.compile_process: None, or the QProcess that compiles
    signals,           \* the compilation signals CompilerManager has emitted, in order
    compilation_in_progress,  \* CompilerPanel.compilation_in_progress
    executable,        \* whether the file CompilerManager.temp_executable names exists
    run_process,       \* CompilerManager.run_process: None, or the QProcess that runs
    program,           \* the QProcesses run_program has started, in order
    timers,            \* the QTimer.singleShot calls of stop_running_program, in order
    execution_in_progress,  \* CompilerPanel.execution_in_progress
    run_button,        \* CompilerPanel.run_button.isEnabled()
    stop_button        \* CompilerPanel.stop_button.isEnabled()

vars == <<kind, blocks, scene_blocks, scene_lines, connected_to, connection_line,
          connected_blocks, undo_stack, redo_stack, connects, loads, inputs, pc, at,
          current, code, exported, processed_blocks, visits,
          compile_process, signals, compilation_in_progress,
          executable, run_process, program, timers, execution_in_progress,
          run_button, stop_button>>

run_vars == <<executable, run_process, program, timers, execution_in_progress,
              run_button, stop_button>>

compiler_vars == <<compile_process, signals, compilation_in_progress, run_vars>>

graph_vars == <<kind, blocks, scene_blocks, scene_lines, connected_to, connection_line,
                connected_blocks, undo_stack, redo_stack, connects, loads, inputs>>

-----------------------------------------------------------------------------
(* Bounds *)

\* Blocks the toolbox creates in one run.
MaxBlocks == 3

\* connect_to calls in one run.
MaxConnects == 2

-----------------------------------------------------------------------------
(* Block.TOP .. Block.RIGHT, and the absent reference *)

TOP == 0
BOTTOM == 1
INNER == 2
LEFT == 3
RIGHT == 4

Roles == {TOP, BOTTOM, INNER, LEFT, RIGHT}

\* Python's None, as a block reference
None == 0

Blocks == 1..MaxBlocks

\* A connection point is <<parent_block, connection_type>>.
AllPoints == Blocks \X Roles

NoPoint == <<None, TOP>>

\* A ConnectionLine object, identified by its two fields.
NoLine == [from_point |-> NoPoint, to_point |-> NoPoint]

ConnectionLine(from_point, to_point) == [from_point |-> from_point, to_point |-> to_point]

CBlockKinds == {"IfBlock", "ElseBlock", "ForLoopBlock", "WhileLoopBlock",
                "FunctionDeclarationBlock", "MainFunctionBlock"}

OvalKinds == {"OperatorBlock", "LogicalOperatorBlock", "ArrayAccessBlock",
              "TernaryOperatorBlock"}

\* connection_defs as they would be were every port enabled for every kind
ConnectionDefsAllEnabled(k) == Roles

\* connection_defs after the constructor of kind k: the roles whose 'enabled' is True.
ConnectionDefs(k) ==
    {TOP, BOTTOM} \cup (IF k \in CBlockKinds THEN {INNER} ELSE {})
                  \cup (IF k \in OvalKinds THEN {LEFT, RIGHT} ELSE {})

\* The order of connection_points.items(): top, bottom, nested, left, right.
PointOrder == <<TOP, BOTTOM, INNER, LEFT, RIGHT>>

Created == 1..Len(kind)

\* x is a connection point that exists (_create_connection_points).
IsPoint(x) == x[1] \in Created /\ x[2] \in ConnectionDefs(kind[x[1]])

Points == {x \in AllPoints : IsPoint(x)}

\* The orders in which scene.items() may list the blocks of the scene.
ItemOrders == {o \in [1..Cardinality(scene_blocks) -> scene_blocks] :
                  \A i, j \in DOMAIN o : o[i] = o[j] => i = j}

\* The alias every undo/redo entry holds: the manager's own list object.
BlocksRef == "block_manager.blocks"

-----------------------------------------------------------------------------
(* Text *)

RECURSIVE Spaces(_)
Spaces(n) == IF n = 0 THEN "" ELSE " " \o Spaces(n - 1)

NL == "\n"

QUOTE == "\""

\* PrintStringBlock.__init__: the default of the "value" field
DefaultValue == <<QUOTE, "Hello, World!", QUOTE>>

\* The texts typed into a "value" field: with and without quotes around them.
TypedValues == {<<"Hi">>, <<QUOTE, "Hi", QUOTE>>}

INNER_CODE == "{{INNER_CODE}}"
BOTTOM_CODE == "{{BOTTOM_CODE}}"
LEFT_CODE == "{{LEFT_CODE}}"
RIGHT_CODE == "{{RIGHT_CODE}}"

\* A string as text: nothing for the empty string.
Tok(s) == IF s = "" THEN <<>> ELSE <<s>>

\* placeholder in code
Contains(text, token) == \E i \in 1..Len(text) : text[i] = token

\* str.replace(placeholder, sub)
RECURSIVE Replace(_, _, _)
Replace(text, token, sub) ==
    IF text = <<>> THEN <<>>
    ELSE (IF Head(text) = token THEN sub ELSE <<Head(text)>>) \o Replace(Tail(text), token, sub)

MaxIndent == 4 * (MaxBlocks + 1)

\* The tokens str.strip() removes whole: a newline, an indentation.
BlankTokens == {NL} \cup {Spaces(n) : n \in 0..MaxIndent}

IsBlank(t) == t \in BlankTokens

\* any(line.strip() for line in text.split('\n'))
AnyLine(text) == \E i \in 1..Len(text) : ~IsBlank(text[i])

\* text.endswith("\n\n")
EndsWithBlankLine(text) ==
    Len(text) >= 2 /\ text[Len(text)] = NL /\ text[Len(text) - 1] = NL

\* str.strip() of text generated at indent 0
RECURSIVE Strip(_)
Strip(text) ==
    IF text = <<>> THEN <<>>
    ELSE IF IsBlank(Head(text)) THEN Strip(Tail(text))
    ELSE IF IsBlank(text[Len(text)]) THEN Strip(SubSeq(text, 1, Len(text) - 1))
    ELSE text

-----------------------------------------------------------------------------
(* Block-level links *)

SetConnected(cb, b, r, v) == [cb EXCEPT ![b][r] = v]

\* ConnectionPoint._disconnect_blocks
DisconnectBlocks(cb, block1, block2, type1, type2) ==
    IF type1 = BOTTOM /\ type2 = TOP
        THEN SetConnected(SetConnected(cb, block1, BOTTOM, None), block2, TOP, None)
    ELSE IF type1 = TOP /\ type2 = BOTTOM
        THEN SetConnected(SetConnected(cb, block1, TOP, None), block2, BOTTOM, None)
    ELSE IF type1 = INNER /\ type2 = TOP
        THEN SetConnected(SetConnected(cb, block1, INNER, None), block2, TOP, None)
    ELSE IF type1 = LEFT /\ type2 = RIGHT
        THEN SetConnected(SetConnected(cb, block1, LEFT, None), block2, RIGHT, None)
    ELSE IF type1 = RIGHT /\ type2 = LEFT
        THEN SetConnected(SetConnected(cb, block1, RIGHT, None), block2, LEFT, None)
    ELSE cb

\* connect_points as it would be were only self's entry written.
ConnectPointsOwnEntry(cb, from_point, to_point) ==
    LET self == from_point[1]
        other_block == to_point[1]
        from_type == from_point[2]
        to_type == to_point[2]
    IN  IF <<from_type, to_type>> \in {<<BOTTOM, TOP>>, <<TOP, BOTTOM>>, <<INNER, TOP>>,
                                       <<LEFT, RIGHT>>, <<RIGHT, LEFT>>}
            THEN SetConnected(cb, self, from_type, other_block)
        ELSE cb

\* Block.connect_points, self being from_point's parent block
ConnectPoints(cb, from_point, to_point) ==
    LET self == from_point[1]
        other_block == to_point[1]
        from_type == from_point[2]
        to_type == to_point[2]
    IN  IF from_type = BOTTOM /\ to_type = TOP
            THEN SetConnected(SetConnected(cb, self, BOTTOM, other_block), other_block, TOP, self)
        ELSE IF from_type = TOP /\ to_type = BOTTOM
            THEN SetConnected(SetConnected(cb, self, TOP, other_block), other_block, BOTTOM, self)
        ELSE IF from_type = INNER /\ to_type = TOP
            THEN SetConnected(SetConnected(cb, self, INNER, other_block), other_block, TOP, self)
        ELSE IF from_type = LEFT /\ to_type = RIGHT
            THEN SetConnected(SetConnected(cb, self, LEFT, other_block), other_block, RIGHT, self)
        ELSE IF from_type = RIGHT /\ to_type = LEFT
            THEN SetConnected(SetConnected(cb, self, RIGHT, other_block), other_block, LEFT, self)
        ELSE cb

\* The connection state the operations thread through their statements.
Graph == [ct |-> connected_to, line |-> connection_line,
          cb |-> connected_blocks, sl |-> scene_lines]

\* connect_to, "disconnect any existing connections" of point x
\* (once for self, once for target_point)
DisconnectExisting(g, x) ==
    IF g.ct[x] = NoPoint THEN g
    ELSE LET o == g.ct[x]
             line1 == IF g.line[o] = g.line[x] THEN [g.line EXCEPT ![o] = NoLine] ELSE g.line
             ct1 == IF g.ct[o] = x THEN [g.ct EXCEPT ![o] = NoPoint] ELSE g.ct
             cb1 == DisconnectBlocks(g.cb, x[1], o[1], x[2], o[2])
             sl1 == IF line1[x] # NoLine THEN g.sl \ {line1[x]} ELSE g.sl
         IN  [ct |-> [ct1 EXCEPT ![x] = NoPoint],
              line |-> [line1 EXCEPT ![x] = NoLine],
              cb |-> cb1,
              sl |-> sl1]

\* connect_to from "Create permanent connection line" to connect_points
Link(g, self, target_point) ==
    LET line == ConnectionLine(self, target_point)
    IN  [ct |-> [g.ct EXCEPT ![self] = target_point, ![target_point] = self],
         line |-> [g.line EXCEPT ![self] = line, ![target_point] = line],
         cb |-> ConnectPoints(g.cb, self, target_point),
         sl |-> g.sl \cup {line}]

\* The graph after self.connect_to(target_point)
ConnectResult(g, self, target_point) ==
    Link(DisconnectExisting(DisconnectExisting(g, self), target_point), self, target_point)

\* delete_selected, the body of "for name, point in item.connection_points.items()"
ClearPoint(g, x) ==
    IF g.line[x] # NoLine /\ g.ct[x] # NoPoint
    THEN LET o == g.ct[x]
         IN  [ct |-> [g.ct EXCEPT ![o] = NoPoint, ![x] = NoPoint],
              line |-> [g.line EXCEPT ![o] = NoLine, ![x] = NoLine],
              cb |-> g.cb,
              sl |-> g.sl \ {g.line[x]}]
    ELSE g

RECURSIVE ClearPoints(_, _, _)
ClearPoints(g, item, i) ==
    IF i > Len(PointOrder) THEN g
    ELSE ClearPoints(IF IsPoint(<<item, PointOrder[i]>>)
                        THEN ClearPoint(g, <<item, PointOrder[i]>>) ELSE g,
                     item, i + 1)

\* list.remove(block)
RECURSIVE Remove(_, _)
Remove(list, b) ==
    IF list = <<>> THEN <<>>
    ELSE IF Head(list) = b THEN Tail(list)
    ELSE <<Head(list)>> \o Remove(Tail(list), b)

InList(list, b) == \E i \in 1..Len(list) : list[i] = b

-----------------------------------------------------------------------------
(* Code generation.  The operators read the graph they are given: kd is    *)
(* kind and cb is connected_blocks.                                        *)

RootKinds == {"IncludeBlock", "FunctionDeclarationBlock", "MainFunctionBlock"}

\* get_root_blocks as it would be were a block a root only while nothing is
\* linked to its TOP port
RECURSIVE RootBlocksWithFreeTop(_, _)
RootBlocksWithFreeTop(list, kd) ==
    IF list = <<>> THEN <<>>
    ELSE (IF kd[Head(list)] \in RootKinds /\ connected_blocks[Head(list)][TOP] = None
          THEN <<Head(list)>> ELSE <<>>)
         \o RootBlocksWithFreeTop(Tail(list), kd)

\* BlockManager.get_root_blocks, over the list of blocks
RECURSIVE get_root_blocks(_, _)
get_root_blocks(list, kd) ==
    IF list = <<>> THEN <<>>
    ELSE (IF kd[Head(list)] \in RootKinds THEN <<Head(list)>> ELSE <<>>)
         \o get_root_blocks(Tail(list), kd)

\* MainFunctionBlock._has_return_statement from the value of current on.
\* "True" and "False" are what the loop returns.  The loop has no state but
\* current, so a walk that has passed more blocks than exist without ending
\* has met some block twice and repeats from there for ever: "Loop".
RECURSIVE HasReturnWalk(_, _, _, _)
HasReturnWalk(cur, fuel, kd, cb) ==
    IF cur = None THEN "False"
    ELSE IF kd[cur] = "ReturnBlock" THEN "True"
    ELSE IF fuel = 0 THEN "Loop"
    ELSE HasReturnWalk(cb[cur][BOTTOM], fuel - 1, kd, cb)

\* _has_return_statement testing the INNER peer alone, never the blocks below it
HasReturnStatementInnerPeerOnly(self, kd, cb) ==
    IF cb[self][INNER] # None /\ kd[cb[self][INNER]] = "ReturnBlock"
    THEN "True" ELSE "False"

\* MainFunctionBlock._has_return_statement
HasReturnStatement(self, kd, cb) == HasReturnWalk(cb[self][INNER], Len(kd), kd, cb)

\* The characters of a text, as one string.
RECURSIVE Cat(_)
Cat(text) == IF text = <<>> THEN "" ELSE Head(text) \o Cat(Tail(text))

\* PrintStringBlock.generate_code_self without the test for quotes: the text as
\* it was typed
PrintTextAsTyped(text) == text

\* PrintStringBlock.generate_code_self: text that does not both start and end
\* with a quote is wrapped in quotes
PrintText(text) ==
    IF text # <<>> /\ Head(text) = QUOTE /\ text[Len(text)] = QUOTE
    THEN text
    ELSE <<QUOTE>> \o text \o <<QUOTE>>

\* generate_code_self of each block kind
GenerateCodeSelf(self, indent, kd, cb) ==
    LET k == kd[self]
        ind == Spaces(indent)
    IN  IF k = "IncludeBlock" THEN
            <<"#include <stdio.h>", NL, BOTTOM_CODE>>
        ELSE IF k = "MainFunctionBlock" THEN
            <<ind \o "int main() {", NL, INNER_CODE>>
            \o (IF HasReturnStatement(self, kd, cb) # "True"
                THEN <<Spaces(indent + 4) \o "return 0;", NL>> ELSE <<>>)
            \o <<ind \o "}", NL, NL, BOTTOM_CODE>>
        ELSE IF k = "FunctionDeclarationBlock" THEN
            <<ind \o "void myFunction(int x, int y) {", NL, INNER_CODE,
              ind \o "}", NL, NL, BOTTOM_CODE>>
        ELSE IF k = "IfBlock" THEN
            <<ind \o "if (x == 0) {", NL, INNER_CODE, ind \o "}", NL, BOTTOM_CODE>>
        ELSE IF k = "ElseBlock" THEN
            <<ind \o "else {", NL, INNER_CODE, ind \o "}", NL, BOTTOM_CODE>>
        ELSE IF k = "ReturnBlock" THEN
            <<ind \o "return 0;", NL, BOTTOM_CODE>>
        ELSE IF k = "PrintStringBlock" THEN
            <<ind \o "printf(" \o Cat(PrintText(inputs[self])) \o ");", NL, BOTTOM_CODE>>
        ELSE IF k = "OperatorBlock" THEN
            \* the f-string turns "{{" into "{": the text holds no LEFT/RIGHT placeholder
            <<"({LEFT_CODE} + {RIGHT_CODE})">>
            \o (IF cb[self][BOTTOM] # None
                THEN <<NL>> \o Tok(ind) \o <<BOTTOM_CODE>> ELSE <<>>)
        ELSE
            <<ind \o "// Base block ", BOTTOM_CODE, NL>>

\* One invocation of Block.generate_code in the visits log: fresh when the block
\* was not in processed_blocks, so that its generate_code_self ran.
Visit(b, fresh) == [block |-> b, fresh |-> fresh]

\* Block.generate_code(indent, processed_blocks), vs being the log of invocations
\* so far.  It returns the text, the set and the log: [code, processed, visits].
RECURSIVE BlockGenerateCode(_, _, _, _, _, _)

\* "if placeholder in code and self.connected_blocks[role]": the connected block
\* generates at indent; st carries the set and the log up to here.
GenerateConnected(self, role, placeholder, indent, text, st, kd, cb) ==
    IF Contains(text, placeholder) /\ cb[self][role] # None
    THEN BlockGenerateCode(cb[self][role], indent, st.processed, st.visits, kd, cb)
    ELSE [st EXCEPT !.code = <<>>]

\* the operand text: .strip(), and the default when nothing is connected
Operand(text, default) == IF Strip(text) = <<>> THEN <<default>> ELSE Strip(text)

\* generate_code, "Handle right connection (for operators)"; rr is what the right block gave
WithRight(text, rr) ==
    [rr EXCEPT !.code = Replace(text, RIGHT_CODE, Operand(rr.code, "b"))]

\* generate_code, "Handle left connection (for operators)"; rl is what the left block gave
WithLeft(self, text, rl, kd, cb) ==
    LET code3 == Replace(text, LEFT_CODE, Operand(rl.code, "a"))
    IN  WithRight(code3, GenerateConnected(self, RIGHT, RIGHT_CODE, 0, code3, rl, kd, cb))

\* generate_code, "Handle bottom connection"; rb is what the bottom block gave
WithBottom(self, text, rb, kd, cb) ==
    LET code2 == Replace(text, BOTTOM_CODE, rb.code)
    IN  WithLeft(self, code2, GenerateConnected(self, LEFT, LEFT_CODE, 0, code2, rb, kd, cb), kd, cb)

\* The inner stage as it would be were the bottom block generated one level
\* deeper than the block above it.
WithInnerBottomDeeper(self, indent, text, ri, kd, cb) ==
    LET code1 == Replace(text, INNER_CODE, ri.code)
    IN  WithBottom(self, code1,
                   GenerateConnected(self, BOTTOM, BOTTOM_CODE, indent + 4, code1, ri, kd, cb),
                   kd, cb)

\* generate_code, "Handle inner connection (for C-shaped blocks)"; ri is what the inner block gave
WithInner(self, indent, text, ri, kd, cb) ==
    LET code1 == Replace(text, INNER_CODE, ri.code)
    IN  WithBottom(self, code1,
                   GenerateConnected(self, BOTTOM, BOTTOM_CODE, indent, code1, ri, kd, cb), kd, cb)

\* The stages as they would be were BOTTOM resolved before INNER.
ExpandBottomFirst(self, indent, text, st, kd, cb) ==
    LET rb == GenerateConnected(self, BOTTOM, BOTTOM_CODE, indent, text, st, kd, cb)
        code1 == Replace(text, BOTTOM_CODE, rb.code)
        ri == GenerateConnected(self, INNER, INNER_CODE, indent + 4, code1, rb, kd, cb)
        code2 == Replace(code1, INNER_CODE, ri.code)
    IN  WithLeft(self, code2,
                 GenerateConnected(self, LEFT, LEFT_CODE, 0, code2, ri, kd, cb), kd, cb)

\* The stages as they would be were the INNER block generated at the indent of
\* the block that holds it.
ExpandInnerSameIndent(self, indent, text, st, kd, cb) ==
    WithInner(self, indent, text,
              GenerateConnected(self, INNER, INNER_CODE, indent, text, st, kd, cb), kd, cb)

\* generate_code of a block not in processed_blocks: text is its generate_code_self
Expand(self, indent, text, st, kd, cb) ==
    WithInner(self, indent, text,
              GenerateConnected(self, INNER, INNER_CODE, indent + 4, text, st, kd, cb), kd, cb)

BlockGenerateCode(self, indent, processed, vs, kd, cb) ==
    IF self \in processed
    THEN [code |-> <<>>, processed |-> processed, visits |-> Append(vs, Visit(self, FALSE))]
    ELSE Expand(self, indent, GenerateCodeSelf(self, indent, kd, cb),
                [code |-> <<>>, processed |-> processed \cup {self},
                 visits |-> Append(vs, Visit(self, TRUE))],
                kd, cb)

\* The start as it would be were the set of the previous pass kept.
StartSectionsKeptSet ==
    [include_section |-> <<>>, function_section |-> <<>>, global_section |-> <<>>,
     processed |-> processed_blocks, visits |-> <<>>]

\* CodeGenerator.generate_code before its loop: empty sections, processed_blocks = set()
StartSections ==
    [include_section |-> <<>>, function_section |-> <<>>, global_section |-> <<>>,
     processed |-> {}, visits |-> <<>>]

\* generate_code, "if code:" and the section the root's kind k selects; r is what
\* block.generate_code returned
AddToSection(acc, k, r) ==
    LET seen == [acc EXCEPT !.processed = @ \cup r.processed, !.visits = r.visits]
    IN  IF r.code = <<>> THEN seen
        ELSE IF k = "IncludeBlock"
            THEN [seen EXCEPT !.include_section = Append(@, r.code)]
        ELSE IF k \in {"FunctionDeclarationBlock", "MainFunctionBlock"}
            THEN [seen EXCEPT !.function_section = Append(@, r.code)]
        ELSE [seen EXCEPT !.global_section = Append(@, r.code)]

\* The iteration as it would be with a processed set of its own for every root.
ProcessRootOwnSet(acc, block, kd, cb) ==
    AddToSection(acc, kd[block], BlockGenerateCode(block, 0, {}, acc.visits, kd, cb))

\* CodeGenerator.generate_code, one iteration of "for block in root_blocks"
ProcessRoot(acc, block, kd, cb) ==
    IF block \in acc.processed THEN acc
    ELSE AddToSection(acc, kd[block],
                      BlockGenerateCode(block, 0, acc.processed, acc.visits, kd, cb))

RECURSIVE ProcessRoots(_, _, _, _)
ProcessRoots(acc, root_blocks, kd, cb) ==
    IF root_blocks = <<>> THEN acc
    ELSE ProcessRoots(ProcessRoot(acc, Head(root_blocks), kd, cb), Tail(root_blocks), kd, cb)

\* "code += x" for every x of the section that has a non-blank line
RECURSIVE JoinSection(_)
JoinSection(section) ==
    IF section = <<>> THEN <<>>
    ELSE (IF AnyLine(Head(section)) THEN Head(section) ELSE <<>>) \o JoinSection(Tail(section))

\* the function section: one more newline after a fragment that does not end "\n\n"
RECURSIVE JoinFunctions(_)
JoinFunctions(section) ==
    IF section = <<>> THEN <<>>
    ELSE (IF AnyLine(Head(section))
          THEN Head(section) \o (IF EndsWithBlankLine(Head(section)) THEN <<>> ELSE <<NL>>)
          ELSE <<>>)
         \o JoinFunctions(Tail(section))

\* CodeGenerator.generate_code, "Join everything together"
Assemble(acc) ==
    JoinSection(acc.include_section)
    \o (IF acc.global_section # <<>> THEN JoinSection(acc.global_section) \o <<NL>> ELSE <<>>)
    \o JoinFunctions(acc.function_section)

\* CodeGenerator.generate_code(root_blocks)
GenerateCode(root_blocks, kd, cb) ==
    LET acc == ProcessRoots(StartSections, root_blocks, kd, cb)
    IN  [code |-> Assemble(acc), processed |-> acc.processed, visits |-> acc.visits]

\* The MainFunctionBlocks of a visits log whose _has_return_statement never returns.
RECURSIVE StuckMains(_, _, _)
StuckMains(vs, kd, cb) ==
    IF vs = <<>> THEN <<>>
    ELSE (IF /\ Head(vs).fresh
             /\ kd[Head(vs).block] = "MainFunctionBlock"
             /\ HasReturnStatement(Head(vs).block, kd, cb) = "Loop"
          THEN <<Head(vs).block>> ELSE <<>>)
         \o StuckMains(Tail(vs), kd, cb)

-----------------------------------------------------------------------------
(* Initial state: an empty canvas *)

Init ==
    /\ kind = <<>>
    /\ blocks = <<>>
    /\ scene_blocks = {}
    /\ scene_lines = {}
    /\ connected_to = [x \in AllPoints |-> NoPoint]
    /\ connection_line = [x \in AllPoints |-> NoLine]
    /\ connected_blocks = [b \in Blocks |-> [r \in Roles |-> None]]
    /\ undo_stack = <<>>
    /\ redo_stack = <<>>
    /\ connects = 0
    /\ loads = 0
    /\ inputs = [b \in Blocks |-> DefaultValue]
    /\ pc = "idle"
    /\ at = "idle"
    /\ current = None
    /\ code = <<>>
    /\ exported = <<>>
    /\ processed_blocks = {}
    /\ visits = <<>>
    /\ compile_process = None
    /\ signals = <<>>
    /\ compilation_in_progress = FALSE
    /\ executable = FALSE
    /\ run_process = None
    /\ program = <<>>
    /\ timers = <<>>
    /\ execution_in_progress = FALSE
    /\ run_button = FALSE
    /\ stop_button = FALSE

-----------------------------------------------------------------------------
(* A generation pass *)

\* How handler leaves generate_code, which gave r on the graph (kd, cb); stuck are
\* the MainFunctionBlocks of the pass whose _has_return_statement does not return.
\* With none, _update_code shows the text and _export_code writes it.  With one,
\* the handler stays in that loop, whose iterations are HasReturnTest and
\* HasReturnAdvance.
PassOutcome(handler, r, stuck, cb) ==
    IF stuck = <<>>
    THEN /\ IF handler = "_update_code"
            THEN code' = r.code /\ UNCHANGED exported
            ELSE exported' = r.code /\ UNCHANGED code
         /\ processed_blocks' = r.processed
         /\ visits' = r.visits
         /\ pc' = "idle"
         /\ UNCHANGED <<at, current>>
    ELSE /\ pc' = handler
         /\ at' = "while"
         /\ current' = cb[Head(stuck)][INNER]
         /\ UNCHANGED <<code, exported, processed_blocks, visits>>

\* handler calls CodeGenerator.generate_code(get_root_blocks()) on the graph
\* (kd, bl, cb) it has built, bl being BlockManager.blocks.
RunPass(handler, kd, bl, cb) ==
    \E r \in {GenerateCode(get_root_blocks(bl, kd), kd, cb)} :
        PassOutcome(handler, r, StuckMains(r.visits, kd, cb), cb)

\* _has_return_statement: "while current:" and "if isinstance(current, ReturnBlock)",
\* neither of which ends the loop
HasReturnTest ==
    /\ UNCHANGED compiler_vars
    /\ pc # "idle" /\ at = "while"
    /\ current # None /\ kind[current] # "ReturnBlock"
    /\ at' = "advance"
    /\ UNCHANGED <<graph_vars, pc, current, code, exported, processed_blocks, visits>>

\* _has_return_statement: current = current.connected_blocks[current.BOTTOM]
HasReturnAdvance ==
    /\ UNCHANGED compiler_vars
    /\ pc # "idle" /\ at = "advance"
    /\ current' = connected_blocks[current][BOTTOM]
    /\ at' = "while"
    /\ UNCHANGED <<graph_vars, pc, code, exported, processed_blocks, visits>>

PassStep == HasReturnTest \/ HasReturnAdvance

-----------------------------------------------------------------------------
(* Canvas operations *)

\* BlockCanvas._save_state
SaveState ==
    /\ undo_stack' = Append(undo_stack, BlocksRef)
    /\ redo_stack' = <<>>

\* add_block as it would be were the block appended without blocks_changed
AddBlockUnannounced(k) ==
    /\ UNCHANGED compiler_vars
    /\ pc = "idle"
    /\ Len(kind) < MaxBlocks
    /\ kind' = Append(kind, k)
    /\ scene_blocks' = scene_blocks \cup {Len(kind) + 1}
    /\ blocks' = Append(blocks, Len(kind) + 1)
    /\ SaveState
    /\ UNCHANGED <<scene_lines, connected_to, connection_line, connected_blocks, connects, loads,
                   inputs, pc, at, current, code, exported, processed_blocks, visits>>

\* Toolbox creates a block of kind k; BlockCanvas.add_block(block)
AddBlock(k) ==
    /\ UNCHANGED compiler_vars
    /\ pc = "idle"
    /\ Len(kind) < MaxBlocks
    /\ LET block == Len(kind) + 1
       IN  /\ kind' = Append(kind, k)
           /\ scene_blocks' = scene_blocks \cup {block}
           /\ blocks' = Append(blocks, block)
           /\ RunPass("_update_code", Append(kind, k), Append(blocks, block), connected_blocks)
    /\ SaveState
    /\ UNCHANGED <<scene_lines, connected_to, connection_line, connected_blocks, connects, loads,
                   inputs>>

\* ConnectionPoint.mouseReleaseEvent over target_point: self.connect_to(target_point)
ConnectTo(self, target_point) ==
    /\ UNCHANGED compiler_vars
    /\ pc = "idle"
    /\ IsPoint(self) /\ IsPoint(target_point)
    /\ self[1] \in scene_blocks /\ target_point[1] \in scene_blocks
    /\ target_point # self
    /\ connects < MaxConnects
    /\ connects' = connects + 1
    /\ UNCHANGED loads
    /\ \E g \in {ConnectResult(Graph, self, target_point)} :
           /\ connected_to' = g.ct
           /\ connection_line' = g.line
           /\ connected_blocks' = g.cb
           /\ scene_lines' = g.sl
           /\ RunPass("_update_code", kind, blocks, g.cb)
    /\ UNCHANGED <<kind, blocks, scene_blocks, undo_stack, redo_stack, inputs>>

\* BlockCanvas.delete_selected with block item selected
DeleteSelected(item) ==
    /\ UNCHANGED compiler_vars
    /\ pc = "idle"
    /\ item \in scene_blocks
    /\ SaveState
    /\ \E g \in {ClearPoints(Graph, item, 1)} :
           /\ connected_to' = g.ct
           /\ connection_line' = g.line
           /\ connected_blocks' = g.cb
           /\ scene_lines' = g.sl
           /\ IF InList(blocks, item)
              THEN /\ blocks' = Remove(blocks, item)
                   /\ RunPass("_update_code", kind, Remove(blocks, item), g.cb)
              ELSE UNCHANGED <<blocks, pc, at, current, code, exported, processed_blocks, visits>>
    /\ scene_blocks' = scene_blocks \ {item}
    /\ UNCHANGED <<kind, connects, loads, inputs>>

\* BlockCanvas.clear, "for item in list(self.scene.items())" from the i-th block on
RECURSIVE ClearItems(_, _, _)
ClearItems(g, items, i) ==
    IF i > Len(items) THEN g
    ELSE ClearItems(ClearPoints(g, items[i], 1), items, i + 1)

\* MainWindow._new_project: BlockCanvas.clear, which ends in BlockManager.clear,
\* and CodeView.clear.  Taken with a block on the canvas.
NewProject ==
    /\ UNCHANGED compiler_vars
    /\ pc = "idle"
    /\ scene_blocks # {}
    /\ SaveState
    /\ \E items \in ItemOrders :
           \E g \in {ClearItems(Graph, items, 1)} :
               /\ connected_to' = g.ct
               /\ connection_line' = g.line
               /\ connected_blocks' = g.cb
               /\ scene_lines' = g.sl
               /\ RunPass("_update_code", kind, <<>>, g.cb)
    /\ scene_blocks' = {}
    /\ blocks' = <<>>
    /\ UNCHANGED <<kind, connects, loads, inputs>>

\* load_blocks calls made in a run.
MaxLoads == 2

\* The list object an undo/redo entry names, bl being what BlockManager.blocks
\* holds: every entry names that one list.
Referent(ref, bl) == IF ref = BlocksRef THEN bl ELSE <<>>

\* BlockCanvas.load_blocks(blocks), where undo or redo has left stack as the undo
\* stack and blocks is the entry it popped.  _save_state; clear, which saves
\* again, empties the scene and ends in BlockManager.clear; then
\* "for block in blocks: self.scene.addItem(block)" over the list as it is by then.
LoadBlocks(stack, previous_blocks) ==
    /\ undo_stack' = stack \o <<BlocksRef, BlocksRef>>
    /\ redo_stack' = <<>>
    /\ \E items \in ItemOrders :
           \E g \in {ClearItems(Graph, items, 1)} :
               /\ connected_to' = g.ct
               /\ connection_line' = g.line
               /\ connected_blocks' = g.cb
               /\ scene_lines' = g.sl
               /\ RunPass("_update_code", kind, <<>>, g.cb)
    /\ blocks' = <<>>
    /\ scene_blocks' = {Referent(previous_blocks, <<>>)[i] :
                           i \in DOMAIN Referent(previous_blocks, <<>>)}
    /\ loads' = loads + 1
    /\ UNCHANGED <<kind, connects, inputs>>

\* BlockCanvas.undo (Edit > Undo, Ctrl+Z).  The entry it appends to the redo
\* stack is cleared by the _save_state of load_blocks.
Undo ==
    /\ UNCHANGED compiler_vars
    /\ pc = "idle"
    /\ IF undo_stack = <<>>
       THEN UNCHANGED <<graph_vars, pc, at, current, code, exported, processed_blocks, visits>>
       ELSE /\ loads < MaxLoads
            /\ LoadBlocks(SubSeq(undo_stack, 1, Len(undo_stack) - 1),
                          undo_stack[Len(undo_stack)])

\* BlockCanvas.redo (Edit > Redo, Ctrl+Y)
Redo ==
    /\ UNCHANGED compiler_vars
    /\ pc = "idle"
    /\ IF redo_stack = <<>>
       THEN UNCHANGED <<graph_vars, pc, at, current, code, exported, processed_blocks, visits>>
       ELSE /\ loads < MaxLoads
            /\ LoadBlocks(Append(undo_stack, BlocksRef), redo_stack[Len(redo_stack)])

\* The user types text into the "value" field of PrintStringBlock self: the
\* QLineEdit holds the new text and emits textChanged.
TypeValue(self, text) ==
    /\ UNCHANGED compiler_vars
    /\ pc = "idle"
    /\ self \in scene_blocks
    /\ kind[self] = "PrintStringBlock"
    /\ text # inputs[self]
    /\ inputs' = [inputs EXCEPT ![self] = text]
    /\ pc' = "_notify_input_changed"
    /\ UNCHANGED <<kind, blocks, scene_blocks, scene_lines, connected_to, connection_line,
                   connected_blocks, undo_stack, redo_stack, connects, loads, at, current,
                   code, exported, processed_blocks, visits>>

\* Block._notify_input_changed, the slot of textChanged:
\* canvas.block_manager.trigger_blocks_changed()
NotifyInputChanged ==
    /\ UNCHANGED compiler_vars
    /\ pc = "_notify_input_changed"
    /\ UNCHANGED graph_vars
    /\ RunPass("_update_code", kind, blocks, connected_blocks)

\* MainWindow._export_code
ExportCode ==
    /\ UNCHANGED compiler_vars
    /\ pc = "idle"
    /\ UNCHANGED graph_vars
    /\ RunPass("_export_code", kind, blocks, connected_blocks)

-----------------------------------------------------------------------------
(* Compilation *)

\* compile_code calls made in a run.
MaxCompiles == 3

NormalExit == "NormalExit"
CrashExit == "CrashExit"

\* The texts of compilation_finished: the two diagnostics of compile_code and
\* what the compile process wrote.
NotFoundText == "GCC compiler not found."
ErrorText == "Compilation error"
OutputText == "output"

compilation_started == [signal |-> "compilation_started"]
compilation_finished(success, text) ==
    [signal |-> "compilation_finished", success |-> success, text |-> text]

Started == {i \in DOMAIN signals : signals[i].signal = "compilation_started"}
Finished == {i \in DOMAIN signals : signals[i].signal = "compilation_finished"}

\* _handle_compilation_finished as it would be were the exit status left out of
\* the test for success
HandleCompilationFinishedByCode(exit_code, exit_status) ==
    /\ pc = "idle"
    /\ compile_process # None
    /\ compile_process' = None
    /\ signals' = Append(signals, compilation_finished(exit_code = 0, OutputText))
    /\ compilation_in_progress' = FALSE
    /\ run_button' = (exit_code = 0)
    /\ executable' = (executable \/ exit_code = 0)
    /\ UNCHANGED <<run_process, program, timers, execution_in_progress, stop_button>>
    /\ UNCHANGED <<graph_vars, pc, at, current, code, exported, processed_blocks, visits>>

\* The compile process finishes with exit_code and exit_status:
\* CompilerManager._handle_compilation_finished, and
\* CompilerPanel._on_compilation_finished on the signal it emits.  A compiler
\* that exits normally with code 0 has written the executable.
HandleCompilationFinished(exit_code, exit_status) ==
    /\ pc = "idle"
    /\ compile_process # None
    /\ compile_process' = None
    /\ signals' = Append(signals, compilation_finished(exit_code = 0 /\ exit_status = NormalExit,
                                                       OutputText))
    /\ compilation_in_progress' = FALSE
    /\ run_button' = (exit_code = 0 /\ exit_status = NormalExit)
    /\ executable' = (executable \/ (exit_code = 0 /\ exit_status = NormalExit))
    /\ UNCHANGED <<run_process, program, timers, execution_in_progress, stop_button>>
    /\ UNCHANGED <<graph_vars, pc, at, current, code, exported, processed_blocks, visits>>

\* CompilerPanel._compile_current_code and the CompilerManager.compile_code(code)
\* it calls.  available is what is_compiler_available answers and fault is
\* whether writing the temporary file raises.  compilation_started reaches
\* _on_compilation_started, and a compilation_finished of compile_code reaches
\* _on_compilation_finished, before compile_code returns.  compile_process is
\* None at every call, as the panel makes none while a compilation is in
\* progress: the clean-up of a previous process has nothing to do.
CompileCurrentCode(available, fault) ==
    /\ pc = "idle"
    /\ ~compilation_in_progress
    /\ AnyLine(code)
    /\ Cardinality(Started) < MaxCompiles
    /\ IF ~available
       THEN /\ signals' = signals \o <<compilation_started,
                                        compilation_finished(FALSE, NotFoundText)>>
            /\ UNCHANGED <<compile_process, compilation_in_progress>>
       ELSE IF fault
       THEN /\ signals' = signals \o <<compilation_started,
                                        compilation_finished(FALSE, ErrorText)>>
            /\ UNCHANGED <<compile_process, compilation_in_progress>>
       ELSE /\ signals' = Append(signals, compilation_started)
            /\ compile_process' = Cardinality(Started) + 1
            /\ compilation_in_progress' = TRUE
    /\ run_button' = FALSE
    /\ UNCHANGED <<executable, run_process, program, timers, execution_in_progress,
                   stop_button>>
    /\ UNCHANGED <<graph_vars, pc, at, current, code, exported, processed_blocks, visits>>

-----------------------------------------------------------------------------
(* Execution *)

\* run_program calls that start a program, and stop_running_program calls that
\* schedule a timer, made in a run.
MaxRuns == 2
MaxStops == 2

Running == "Running"
NotRunning == "NotRunning"

\* The delay of the QTimer.singleShot of stop_running_program, in ms.
ForceKillDelay == 3000

\* A QProcess that run_program has just started: its state(), and whether
\* terminate() and kill() have been called on it.
StartedProgram == [state |-> Running, terminate |-> FALSE, kill |-> FALSE]

\* run_process.state() != QProcess.NotRunning, of a run_process that is not None
IsRunning == run_process # None /\ program[run_process].state # NotRunning

\* CompilerPanel._on_execution_started
OnExecutionStarted ==
    /\ run_button' = FALSE
    /\ stop_button' = TRUE
    /\ execution_in_progress' = TRUE

\* CompilerPanel._on_execution_finished, which treats every exit_code alike
\* but for the console text
OnExecutionFinished ==
    /\ run_button' = TRUE
    /\ stop_button' = FALSE
    /\ execution_in_progress' = FALSE

\* The programs once run_program has cleaned up a previous run_process: one
\* still running is terminated and its QProcess deleted.
CleanedUp ==
    IF IsRunning
    THEN [program EXCEPT ![run_process] = [state |-> NotRunning, terminate |-> TRUE,
                                           kill |-> @.kill]]
    ELSE program

\* CompilerPanel._run_compiled_code (the Run button, and Run of the menu or F6
\* through MainWindow._run_code) and the CompilerManager.run_program it calls.
\* Without an executable run_program emits execution_finished(1) and returns;
\* with one it emits execution_started and starts a new QProcess.
RunCompiledCode ==
    /\ pc = "idle"
    /\ ~execution_in_progress
    /\ IF ~executable
       THEN /\ OnExecutionFinished
            /\ UNCHANGED <<run_process, program>>
       ELSE /\ Len(program) < MaxRuns
            /\ OnExecutionStarted
            /\ program' = Append(CleanedUp, StartedProgram)
            /\ run_process' = Len(program) + 1
    /\ UNCHANGED <<executable, timers>>
    /\ UNCHANGED <<compile_process, signals, compilation_in_progress>>
    /\ UNCHANGED <<graph_vars, pc, at, current, code, exported, processed_blocks, visits>>

\* The running program exits: CompilerManager._handle_program_finished, and
\* CompilerPanel._on_execution_finished on the signal it emits.
HandleProgramFinished ==
    /\ pc = "idle"
    /\ IsRunning
    /\ program' = [program EXCEPT ![run_process].state = NotRunning]
    /\ run_process' = None
    /\ OnExecutionFinished
    /\ UNCHANGED <<executable, timers>>
    /\ UNCHANGED <<compile_process, signals, compilation_in_progress>>
    /\ UNCHANGED <<graph_vars, pc, at, current, code, exported, processed_blocks, visits>>

\* CompilerPanel._stop_running_program (the Stop button, and Stop of the menu)
\* and the CompilerManager.stop_running_program it calls.  A timer records
\* its delay, the run_process it was scheduled under, and whether it has yet
\* to fire.
StopRunningProgram ==
    /\ pc = "idle"
    /\ IF IsRunning
       THEN /\ Len(timers) < MaxStops
            /\ program' = [program EXCEPT ![run_process].terminate = TRUE]
            /\ timers' = Append(timers, [interval |-> ForceKillDelay,
                                         scheduled_for |-> run_process,
                                         pending |-> TRUE])
       ELSE UNCHANGED <<program, timers>>
    /\ UNCHANGED <<executable, run_process, execution_in_progress, run_button, stop_button>>
    /\ UNCHANGED <<compile_process, signals, compilation_in_progress>>
    /\ UNCHANGED <<graph_vars, pc, at, current, code, exported, processed_blocks, visits>>

\* The timers that have yet to fire; equal delays fire in the order scheduled.
Pending == {i \in DOMAIN timers : timers[i].pending}
NextTimer == CHOOSE i \in Pending : \A j \in Pending : i <= j

\* A timer firing as it would were _force_kill_process to leave the process alone
ForceKillProcessIdle ==
    /\ pc = "idle"
    /\ Pending # {}
    /\ timers' = [timers EXCEPT ![NextTimer].pending = FALSE]
    /\ UNCHANGED program
    /\ UNCHANGED <<executable, run_process, execution_in_progress, run_button, stop_button>>
    /\ UNCHANGED <<compile_process, signals, compilation_in_progress>>
    /\ UNCHANGED <<graph_vars, pc, at, current, code, exported, processed_blocks, visits>>

\* A timer of stop_running_program fires: CompilerManager._force_kill_process.
ForceKillProcess ==
    /\ pc = "idle"
    /\ Pending # {}
    /\ timers' = [timers EXCEPT ![NextTimer].pending = FALSE]
    /\ IF IsRunning
       THEN program' = [program EXCEPT ![run_process].kill = TRUE]
       ELSE UNCHANGED program
    /\ UNCHANGED <<executable, run_process, execution_in_progress, run_button, stop_button>>
    /\ UNCHANGED <<compile_process, signals, compilation_in_progress>>
    /\ UNCHANGED <<graph_vars, pc, at, current, code, exported, processed_blocks, visits>>

-----------------------------------------------------------------------------
(* The reachability query *)

\* is_connected, the parents that make a block valid at once
ParentKinds == {"FunctionDeclarationBlock", "MainFunctionBlock", "IfBlock", "ElseBlock",
                "ForLoopBlock", "WhileLoopBlock"}

\* Block.blocks_from_scene, items being the order of scene.items()
blocks_from_scene(self, items) == IF self \in scene_blocks THEN items ELSE <<>>

\* Block.is_connected of self while the calls of active are on the stack, items
\* being the order of scene.items().  "True" and "False" are what it returns.  The
\* call keeps no state and the graph does not change under it, so a call on a
\* block that has a call on the stack already makes the same calls again, without
\* end: "Loop".
RECURSIVE is_connected(_, _, _)
RECURSIVE ScanScene(_, _, _, _, _)

\* is_connected, "for block in self.blocks_from_scene(): for connection_type in
\* [INNER, BOTTOM, LEFT, RIGHT]" from the i-th block and the j-th role on
ScanScene(self, i, j, active, items) ==
    LET scene == blocks_from_scene(self, items)
        types == <<INNER, BOTTOM, LEFT, RIGHT>>
    IN  IF i > Len(scene) THEN "False"
        ELSE IF j > Len(types) THEN ScanScene(self, i + 1, 1, active, items)
        ELSE IF connected_blocks[scene[i]][types[j]] # self
             THEN ScanScene(self, i, j + 1, active, items)
        ELSE LET r == is_connected(scene[i], active, items)
             IN  IF r = "False" THEN ScanScene(self, i, j + 1, active, items) ELSE r

is_connected(self, active, items) ==
    IF self \in active THEN "Loop"
    ELSE IF kind[self] \in RootKinds THEN "True"
    ELSE LET parent == connected_blocks[self][TOP]
             top == IF parent = None THEN "False"
                    ELSE IF kind[parent] \in ParentKinds THEN "True"
                    ELSE is_connected(parent, active \cup {self}, items)
         IN  IF top = "False" THEN ScanScene(self, 1, 1, active \cup {self}, items) ELSE top

-----------------------------------------------------------------------------
(* Specifications *)

\* Kinds placed in the runs that exercise the connection operations.
ConnKinds == {"MainFunctionBlock", "OperatorBlock"}

\* Kinds placed in the runs that exercise the generator.
GenKinds == {"IncludeBlock", "MainFunctionBlock", "PrintStringBlock", "ReturnBlock"}

\* Kinds placed in the runs that export the program.
ExportKinds == {"MainFunctionBlock", "PrintStringBlock"}

Next ==
    \/ \E k \in ConnKinds : AddBlock(k)
    \/ \E self \in Points, target_point \in Points : ConnectTo(self, target_point)
    \/ \E item \in scene_blocks : DeleteSelected(item)
    \/ PassStep

Spec == Init /\ [][Next]_vars

NextGen ==
    \/ \E k \in GenKinds : AddBlock(k)
    \/ \E self \in Points, target_point \in Points : ConnectTo(self, target_point)
    \/ \E item \in scene_blocks : DeleteSelected(item)
    \/ PassStep

\* The interpreter keeps running the handler it is in.
SpecGen == Init /\ [][NextGen]_vars /\ WF_vars(PassStep)

NextExport ==
    \/ \E k \in ExportKinds : AddBlock(k)
    \/ \E self \in Points, target_point \in Points : ConnectTo(self, target_point)
    \/ \E item \in scene_blocks : DeleteSelected(item)
    \/ ExportCode
    \/ PassStep

SpecExport == Init /\ [][NextExport]_vars /\ WF_vars(PassStep)

\* Kinds placed in the runs that type into input fields.
FieldKinds == {"IncludeBlock", "MainFunctionBlock", "PrintStringBlock"}

NextFields ==
    \/ \E k \in FieldKinds : AddBlock(k)
    \/ \E self \in Points, target_point \in Points : ConnectTo(self, target_point)
    \/ \E self \in scene_blocks, text \in TypedValues : TypeValue(self, text)
    \/ NotifyInputChanged
    \/ PassStep

SpecFields == Init /\ [][NextFields]_vars /\ WF_vars(PassStep) /\ WF_vars(NotifyInputChanged)

\* Kinds placed in the runs that nest a control block in the body of main.
BodyKinds == {"MainFunctionBlock", "IfBlock", "ReturnBlock"}

NextBody ==
    \/ \E k \in BodyKinds : AddBlock(k)
    \/ \E self \in Points, target_point \in Points : ConnectTo(self, target_point)
    \/ \E item \in scene_blocks : DeleteSelected(item)
    \/ PassStep

SpecBody == Init /\ [][NextBody]_vars /\ WF_vars(PassStep)

\* Kinds placed in the runs that chain control blocks in the body of main.
ControlFlowKinds == {"MainFunctionBlock", "IfBlock", "ElseBlock"}

NextControl ==
    \/ \E k \in ControlFlowKinds : AddBlock(k)
    \/ \E self \in Points, target_point \in Points : ConnectTo(self, target_point)
    \/ \E item \in scene_blocks : DeleteSelected(item)
    \/ PassStep

SpecControl == Init /\ [][NextControl]_vars /\ WF_vars(PassStep)

\* Kinds placed in the runs that compile.
CompileKinds == {"MainFunctionBlock"}

ProcessFinishes ==
    \E exit_code \in {0, 1}, exit_status \in {NormalExit, CrashExit} :
        HandleCompilationFinished(exit_code, exit_status)

NextCompile ==
    \/ \E k \in CompileKinds : AddBlock(k)
    \/ \E available \in BOOLEAN, fault \in BOOLEAN : CompileCurrentCode(available, fault)
    \/ ProcessFinishes

\* The compile process comes to an end.
SpecCompile == Init /\ [][NextCompile]_vars /\ WF_vars(ProcessFinishes)

\* Kinds placed in the runs that execute the program.
RunKinds == {"MainFunctionBlock"}

\* A program on which kill() was called exits.
KilledProgramFinishes ==
    /\ run_process # None
    /\ program[run_process].kill
    /\ HandleProgramFinished

NextRun ==
    \/ \E k \in RunKinds : AddBlock(k)
    \/ \E available \in BOOLEAN, fault \in BOOLEAN : CompileCurrentCode(available, fault)
    \/ ProcessFinishes
    \/ RunCompiledCode
    \/ HandleProgramFinished
    \/ StopRunningProgram
    \/ ForceKillProcess

\* A scheduled timer fires, and a killed program exits.
SpecRun ==
    /\ Init
    /\ [][NextRun]_vars
    /\ WF_vars(ForceKillProcess)
    /\ WF_vars(KilledProgramFinishes)

\* Kinds placed in the runs that clear the canvas.
CanvasKinds == {"MainFunctionBlock", "ReturnBlock"}

NextCanvas ==
    \/ \E k \in CanvasKinds : AddBlock(k)
    \/ \E self \in Points, target_point \in Points : ConnectTo(self, target_point)
    \/ \E item \in scene_blocks : DeleteSelected(item)
    \/ NewProject
    \/ PassStep

SpecCanvas == Init /\ [][NextCanvas]_vars /\ WF_vars(PassStep)

\* Kinds placed in the runs that undo and redo.
HistoryKinds == {"MainFunctionBlock", "ReturnBlock"}

NextHistory ==
    \/ \E k \in HistoryKinds : AddBlock(k)
    \/ \E self \in Points, target_point \in Points : ConnectTo(self, target_point)
    \/ \E item \in scene_blocks : DeleteSelected(item)
    \/ Undo
    \/ Redo
    \/ PassStep

SpecHistory == Init /\ [][NextHistory]_vars /\ WF_vars(PassStep)

-----------------------------------------------------------------------------
(* Properties of the connection operations *)

\* The compatibility table: the role pairings that make a connection.
Compatible(from_type, to_type) ==
    <<from_type, to_type>> \in {<<BOTTOM, TOP>>, <<TOP, BOTTOM>>, <<INNER, TOP>>,
                               <<LEFT, RIGHT>>, <<RIGHT, LEFT>>}

\* The roles complementary to r: BOTTOM/TOP, INNER/TOP, LEFT/RIGHT.
Complement(r) ==
    IF r = TOP THEN {BOTTOM, INNER}
    ELSE IF r \in {BOTTOM, INNER} THEN {TOP}
    ELSE IF r = LEFT THEN {RIGHT}
    ELSE {LEFT}

\* l is a line whose two points name each other and whose two blocks name each
\* other under the roles of the points.
Linked(l) ==
    /\ connected_to[l.from_point] = l.to_point
    /\ connected_to[l.to_point] = l.from_point
    /\ connected_blocks[l.from_point[1]][l.from_point[2]] = l.to_point[1]
    /\ connected_blocks[l.to_point[1]][l.to_point[2]] = l.from_point[1]

\* The step is self.connect_to(target_point) with p as self and q as target_point:
\* it leaves the line from p to q on p.
Connects(p, q) ==
    /\ connection_line'[p] = ConnectionLine(p, q)
    /\ ConnectTo(p, q)

\* C1: after any sequence of connect_to and delete_selected, block-level links are
\* reciprocal: if A.connected_blocks[r] is B, then B.connected_blocks[r'] is A for
\* a role r' complementary to r.
LinksReciprocal ==
    \A b \in Created, r \in Roles :
        connected_blocks[b][r] # None =>
            \E r2 \in Complement(r) : connected_blocks[connected_blocks[b][r]][r2] = b

\* C2: a connect attempt with a role pairing outside the compatibility table leaves
\* the peers, the block-level links and the lines as they were, and makes no new
\* link or line.
IncompatibleChangesNothing ==
    [][\A p \in AllPoints, q \in AllPoints :
          (~Compatible(p[2], q[2]) /\ Connects(p, q)) =>
              UNCHANGED <<connected_to, connection_line, connected_blocks, scene_lines>>]_vars

\* C3: connect_to with an accepted role pairing between ports of two distinct
\* blocks leaves each block's connected_blocks entry for its own role naming the
\* other block, and each point's connected_to naming the other point.
AcceptedPairingLinksBoth ==
    [][\A p \in AllPoints, q \in AllPoints :
          (Compatible(p[2], q[2]) /\ p[1] # q[1] /\ Connects(p, q)) =>
              /\ connected_blocks'[p[1]][p[2]] = q[1]
              /\ connected_blocks'[q[1]][q[2]] = p[1]
              /\ connected_to'[p] = q
              /\ connected_to'[q] = p]_vars

\* C3, its case: connect_to has made an INNER to TOP link and a RIGHT to LEFT link,
\* each between two distinct blocks, and both stand reciprocal.
AcceptedPairingsMade ==
    \E l1 \in scene_lines, l2 \in scene_lines :
        /\ l1.from_point[2] = INNER /\ l1.to_point[2] = TOP
        /\ l2.from_point[2] = RIGHT /\ l2.to_point[2] = LEFT
        /\ l1.from_point[1] # l1.to_point[1]
        /\ l2.from_point[1] # l2.to_point[1]
        /\ Linked(l1) /\ Linked(l2)

\* C4: when connect_to is applied to a port that has a peer, the old peer ends with
\* no connection on its port: neither its point's connected_to nor its
\* connected_blocks entry still names the reconnected block.
OldPeerTornDown ==
    [][\A p \in AllPoints, q \in AllPoints :
          Connects(p, q) =>
              \A x \in {p, q} :
                  (connected_to[x] # NoPoint /\ connected_to[x] \notin {p, q}) =>
                      /\ connected_to'[connected_to[x]] # x
                      /\ connected_blocks'[connected_to[x][1]][connected_to[x][2]] # x[1]]_vars

\* C5: after delete_selected removes a block, every block that was its peer has an
\* empty port: no connected_to, no connection_line and no connected_blocks entry.
DeleteLeavesNoReference ==
    [][\A item \in Blocks :
          DeleteSelected(item) =>
              \A r \in Roles :
                  (connected_to[<<item, r>>] # NoPoint /\ connected_to[<<item, r>>][1] # item) =>
                      /\ connected_to'[connected_to[<<item, r>>]] = NoPoint
                      /\ connection_line'[connected_to[<<item, r>>]] = NoLine
                      /\ connected_blocks'[connected_to[<<item, r>>][1]]
                                          [connected_to[<<item, r>>][2]] = None]_vars

\* C6: no block ever records itself as its own peer in connected_blocks.
NoSelfPeer ==
    \A b \in Created, r \in Roles : connected_blocks[b][r] # b

-----------------------------------------------------------------------------
(* Properties of the generator *)

\* C7: CodeGenerator.generate_code terminates on every connection graph: a handler
\* that has called it comes back.
GenerationTerminates == (pc # "idle") ~> (pc = "idle")

\* C8: within one pass each block's own fragment is expanded at most once: the first
\* visit of a block expands it and every later visit of it gives the empty text.
ExpandedAtMostOnce ==
    \A j \in 1..Len(visits) :
        visits[j].fresh <=> ~\E i \in 1..(j - 1) : visits[i].block = visits[j].block

\* C8, its case: a finished pass came twice to a PrintStringBlock nested in
\* main, and the text holds its statement once.
VisitedAgain ==
    /\ pc = "idle"
    /\ \E i \in 1..Len(visits), j \in 1..Len(visits) :
           /\ i < j
           /\ visits[i].block = visits[j].block
           /\ kind[visits[i].block] = "PrintStringBlock"
    /\ Cardinality({n \in 1..Len(code) :
                       code[n] = Spaces(4) \o "printf(\"Hello, World!\");"}) = 1

\* C9: two consecutive calls of generate_code(get_root_blocks()) on an unchanged
\* collection and graph return the same text: what _export_code writes is what
\* _update_code has shown.
ExportRepeatsShownCode == [][ExportCode => exported' = code]_vars

\* C9, its case: a program with a nested block has been shown and then exported.
ExportedShownCode ==
    /\ pc = "idle"
    /\ exported # <<>>
    /\ exported = code
    /\ \E b \in processed_blocks : connected_blocks[b][INNER] \in processed_blocks \ {b}

\* The section of CodeGenerator.generate_code a root of kind k goes to.
Bucket(k) ==
    IF k = "IncludeBlock" THEN "include_section"
    ELSE IF k \in {"FunctionDeclarationBlock", "MainFunctionBlock"} THEN "function_section"
    ELSE "global_section"

\* The root lists that differ from list only in how the kinds are interleaved:
\* the roots of one section keep their order.
Interleavings(list) ==
    LET n == Len(list)
        keeps(pi) ==
            /\ \A i \in 1..n, j \in 1..n : i # j => pi[i] # pi[j]
            /\ \A i \in 1..n, j \in 1..n :
                   (i < j /\ Bucket(kind[list[pi[i]]]) = Bucket(kind[list[pi[j]]]))
                       => pi[i] < pi[j]
    IN  {[i \in 1..n |-> list[pi[i]]] : pi \in {p \in [1..n -> 1..n] : keeps(p)}}

\* C10: for a fixed connection graph the generated text does not depend on how the
\* kinds are interleaved in the root list.
OutputIgnoresRootOrder ==
    pc = "idle" =>
        \A root_blocks \in Interleavings(get_root_blocks(blocks, kind)) :
            GenerateCode(root_blocks, kind, connected_blocks).code = code

-----------------------------------------------------------------------------
(* Properties of the entry point's return *)

\* The control blocks, whose INNER chain is a nested body.
ControlKinds == {"IfBlock", "ElseBlock", "ForLoopBlock", "WhileLoopBlock"}

\* A Return block lies in the body that starts at cur: on its BOTTOM chain or in
\* the INNER chain of a control block of it.  seen stops the search on a cycle.
RECURSIVE BodyHoldsReturn(_, _)
BodyHoldsReturn(cur, seen) ==
    IF cur = None \/ cur \in seen THEN FALSE
    ELSE \/ kind[cur] = "ReturnBlock"
         \/ /\ kind[cur] \in ControlKinds
            /\ BodyHoldsReturn(connected_blocks[cur][INNER], seen \cup {cur})
         \/ BodyHoldsReturn(connected_blocks[cur][BOTTOM], seen \cup {cur})

\* The line main injects before its closing brace, main being at indent 0.
InjectedReturn == Spaces(4) \o "return 0;"

\* C11: the entry-point block injects its "return 0;" line exactly when no Return
\* block lies anywhere in its body, the nested bodies of the control blocks
\* included: a Return inside an If within main suppresses the injected line.
ReturnInjectedIffNoneInBody ==
    pc = "idle" =>
        \A m \in processed_blocks :
            kind[m] = "MainFunctionBlock" =>
                (Contains(GenerateCodeSelf(m, 0, kind, connected_blocks), InjectedReturn)
                 <=> ~BodyHoldsReturn(connected_blocks[m][INNER], {}))

\* The blocks met from cur on along BOTTOM, in order; a None entry ends the
\* sequence when the walk comes back to a block it has met.
RECURSIVE BottomChain(_, _)
BottomChain(cur, seen) ==
    IF cur = None THEN <<>>
    ELSE IF cur \in seen THEN <<None>>
    ELSE <<cur>> \o BottomChain(connected_blocks[cur][BOTTOM], seen \cup {cur})

\* The body of main m: the BOTTOM chain that starts at its INNER peer.
Body(m) == BottomChain(connected_blocks[m][INNER], {})

Acyclic(chain) == \A i \in DOMAIN chain : chain[i] # None

Mains == {m \in Created : kind[m] = "MainFunctionBlock"}

\* The places of the injected line in a fragment.
Injections(frag) == {i \in DOMAIN frag : frag[i] = InjectedReturn}

\* C12: for an entry-point block whose body is a finite acyclic BOTTOM chain
\* from its INNER peer, a Return block on the chain leaves main's text without
\* an injected "return 0;", and a chain without one (the empty body included)
\* gets exactly one such line, immediately before the closing brace.
ReturnOnChainSuppressesInjection ==
    \A m \in Mains :
        Acyclic(Body(m)) =>
            LET frag == GenerateCodeSelf(m, 0, kind, connected_blocks)
            IN  IF \E i \in DOMAIN Body(m) : kind[Body(m)[i]] = "ReturnBlock"
                THEN Injections(frag) = {}
                ELSE /\ Cardinality(Injections(frag)) = 1
                     /\ \A i \in Injections(frag) :
                            /\ i + 2 <= Len(frag)
                            /\ frag[i + 1] = NL
                            /\ frag[i + 2] = "}"

\* main's body is a statement followed by a Return block, and the shown code
\* ends main after that block's line without a second one
ReturnBelowStatementGenerated ==
    /\ pc = "idle"
    /\ \E m \in Mains \cap processed_blocks :
        /\ Len(Body(m)) = 2
        /\ Acyclic(Body(m))
        /\ kind[Body(m)[1]] = "PrintStringBlock"
        /\ kind[Body(m)[2]] = "ReturnBlock"
        /\ Cardinality(Injections(code)) = 1

-----------------------------------------------------------------------------
(* Properties of the generated text *)

\* Block b is linked at the roles of links, to the blocks links gives, and at no
\* other role.
LinkedOnlyAt(b, links) ==
    \A r \in Roles :
        connected_blocks[b][r] = (IF r \in DOMAIN links THEN links[r] ELSE None)

\* Include i has main m on its BOTTOM, whose body is the one PrintStringBlock p
\* with Hi typed into it; i and m are both in the manager's collection.
HiProgram(i, m, p) ==
    /\ kind[i] = "IncludeBlock" /\ kind[m] = "MainFunctionBlock"
    /\ kind[p] = "PrintStringBlock"
    /\ InList(blocks, i) /\ InList(blocks, m)
    /\ LinkedOnlyAt(i, BOTTOM :> m)
    /\ LinkedOnlyAt(m, TOP :> i @@ INNER :> p)
    /\ LinkedOnlyAt(p, TOP :> m)
    /\ inputs[p] \in {<<"Hi">>, <<QUOTE, "Hi", QUOTE>>}

HiText ==
    <<"#include <stdio.h>", NL,
      "int main() {", NL,
      "    printf(\"Hi\");", NL,
      "    return 0;", NL,
      "}", NL, NL>>

\* C13: an Include block whose BOTTOM is linked to the entry-point block, whose
\* INNER chain holds one Print-string block with value Hi, generates exactly
\* the include line, main with the printf and the injected return, and a blank
\* line, whichever of the two roots comes first in the root list.
HiProgramText ==
    pc = "idle" =>
        \A i \in Created, m \in Created, p \in Created :
            HiProgram(i, m, p) => code = HiText

\* the Hi program with main ahead of the Include in the collection, Hi typed
\* without quotes, and its text shown
HiProgramMainFirstShown ==
    /\ pc = "idle"
    /\ \E i \in Created, m \in Created, p \in Created :
        /\ HiProgram(i, m, p)
        /\ inputs[p] = <<"Hi">>
        /\ get_root_blocks(blocks, kind) = <<m, i>>
    /\ code = HiText

\* C14: a binary Operator block with operator + and nothing attached to LEFT,
\* RIGHT or BOTTOM generates exactly (a + b), the default identifiers standing
\* for the unconnected operands.
LoneOperatorText ==
    \A o \in Created :
        (/\ kind[o] = "OperatorBlock"
         /\ LinkedOnlyAt(o, IF connected_blocks[o][TOP] = None
                            THEN <<>> ELSE TOP :> connected_blocks[o][TOP]))
        => Cat(BlockGenerateCode(o, 0, {}, <<>>, kind, connected_blocks).code) = "(a + b)"

\* main m is the one root, its body is If f, and Else e is on the BOTTOM of f,
\* both with nothing inside.
IfElseProgram(m, f, e) ==
    /\ kind[m] = "MainFunctionBlock" /\ kind[f] = "IfBlock" /\ kind[e] = "ElseBlock"
    /\ get_root_blocks(blocks, kind) = <<m>>
    /\ LinkedOnlyAt(m, INNER :> f)
    /\ LinkedOnlyAt(f, TOP :> m @@ BOTTOM :> e)
    /\ LinkedOnlyAt(e, TOP :> f)

IfElseText ==
    <<"int main() {", NL,
      "    if (x == 0) {", NL,
      "    }", NL,
      "    else {", NL,
      "    }", NL,
      "    return 0;", NL,
      "}", NL, NL>>

\* C15: blocks on a BOTTOM chain are emitted in chain order at one indent: an If
\* with an Else on its BOTTOM, both with empty INNER, inside the entry-point
\* block gives the lines "if (...) {", "}", "else {", "}" in that order, each
\* indented 4 spaces inside main.
IfElseLinesInOrder ==
    pc = "idle" =>
        \A m \in Created, f \in Created, e \in Created :
            IfElseProgram(m, f, e) => code = IfElseText

\* the If/Else program is on the canvas and its text is shown
IfElseProgramShown ==
    /\ pc = "idle"
    /\ \E m \in Created, f \in Created, e \in Created : IfElseProgram(m, f, e)
    /\ code = IfElseText

\* The graph that differs from the present one only in that nothing is
\* connected to block b.
Unconnected(b) == [connected_blocks EXCEPT ![b] = [r \in Roles |-> None]]

\* C16: generate_code_self depends on the field values and the indent alone:
\* whatever is connected to a block, its self-fragment is the one it has with
\* nothing connected.
SelfFragmentIgnoresConnections ==
    \A b \in Created :
        HasReturnStatement(b, kind, connected_blocks) # "Loop" =>
            GenerateCodeSelf(b, 0, kind, connected_blocks)
                = GenerateCodeSelf(b, 0, kind, Unconnected(b))

-----------------------------------------------------------------------------
(* Properties of the queries *)

\* C17: the query "is this block connected to a valid root" comes to an answer
\* on every connection graph, the graphs with a cycle along TOP/BOTTOM links
\* included.
IsConnectedAnswers ==
    \A b \in Created, items \in ItemOrders : is_connected(b, {}, items) # "Loop"

IsRootKind(b) ==
    kind[b] \in {"IncludeBlock", "FunctionDeclarationBlock", "MainFunctionBlock"}

\* C18: get_root_blocks is the collection's blocks of kind Include,
\* FunctionDeclaration or MainFunction, in collection order; and a step that
\* leaves the collection as it is, such as linking or unlinking ports, leaves
\* the root set as it is.
RootsAreByKind ==
    /\ [](get_root_blocks(blocks, kind) = SelectSeq(blocks, IsRootKind))
    /\ [][blocks' = blocks => get_root_blocks(blocks', kind') = get_root_blocks(blocks, kind)]_vars

\* main with a block linked to its TOP port is a root, beside a block of the
\* collection that is none
LinkedMainIsRoot ==
    \E m \in Created, b \in Created :
        /\ kind[m] = "MainFunctionBlock"
        /\ connected_blocks[m][TOP] # None
        /\ InList(get_root_blocks(blocks, kind), m)
        /\ InList(blocks, b)
        /\ ~InList(get_root_blocks(blocks, kind), b)

-----------------------------------------------------------------------------
(* Properties of regeneration *)

\* C19: once an operation that changes the graph has returned (a block added,
\* a present block removed, the collection cleared, a connect_to completed),
\* the code shown, which is also the compiler panel's latest_code, is
\* generate_code(get_root_blocks()) of the graph the operation left.
ShownCodeIsCurrent ==
    pc = "idle" =>
        code = GenerateCode(get_root_blocks(blocks, kind), kind, connected_blocks).code

\* main is on the canvas with a linked body after another block was removed,
\* and its text is shown
LinkedMainShownAfterRemoval ==
    /\ pc = "idle"
    /\ connects > 0
    /\ Len(blocks) < Len(kind)
    /\ \E m \in Mains : InList(blocks, m) /\ connected_blocks[m][INNER] # None
    /\ code # <<>>

-----------------------------------------------------------------------------
(* Properties of compilation *)

\* The signals a step adds to those emitted before it.
NewSignals == (DOMAIN signals') \ (DOMAIN signals)

\* C20: every compile_code call is answered by a result: each
\* compilation_started is followed by exactly one compilation_finished; with no
\* compiler available the call itself emits compilation_finished(False,
\* diagnostic) and creates no compile process; and success is True only when
\* the process has exited normally with exit code 0.
CompileCallAnswered ==
    /\ [](\A i \in DOMAIN signals :
            signals[i].signal = (IF i % 2 = 1 THEN "compilation_started"
                                 ELSE "compilation_finished"))
    /\ (Len(signals) % 2 = 1) ~> (Len(signals) % 2 = 0)
    /\ [][\A fault \in BOOLEAN :
            CompileCurrentCode(FALSE, fault) =>
                /\ signals' = signals \o <<compilation_started,
                                            compilation_finished(FALSE, NotFoundText)>>
                /\ compile_process' = compile_process]_vars
    /\ [][\A available \in BOOLEAN, fault \in BOOLEAN :
            CompileCurrentCode(available, fault) =>
                \A i \in NewSignals :
                    signals'[i].signal = "compilation_finished" => ~signals'[i].success]_vars
    /\ [][\A exit_code \in {0, 1}, exit_status \in {NormalExit, CrashExit} :
            HandleCompilationFinished(exit_code, exit_status) =>
                \A i \in NewSignals :
                    signals'[i].success => exit_code = 0 /\ exit_status = NormalExit]_vars

\* one compilation has succeeded and another call found no compiler
CompiledAndNoCompiler ==
    /\ compile_process = None
    /\ \E i \in Finished, j \in Finished :
        /\ signals[i].success
        /\ signals[j].text = NotFoundText

-----------------------------------------------------------------------------
(* Properties of execution *)

\* C21: cancelling follows terminate-then-kill.  A timer is scheduled only by a
\* stop of a running program, with a delay of 3000 ms, and terminate() has
\* then been called on that program; a stop with no program running changes
\* nothing; kill() is called only as a timer fires and only on a program that
\* is still running; and a program that was stopped is eventually not running.
StopTerminatesThenKills ==
    /\ [](\A i \in DOMAIN timers :
            /\ timers[i].interval = 3000
            /\ program[timers[i].scheduled_for].terminate)
    /\ [][/\ Len(timers') > Len(timers) =>
                /\ IsRunning
                /\ program'[run_process].terminate
                /\ timers' = Append(timers, timers'[Len(timers')])
          /\ (~IsRunning /\ StopRunningProgram) => UNCHANGED vars
          /\ \A p \in DOMAIN program :
                (program'[p].kill /\ ~program[p].kill) =>
                    /\ program[p].state = Running
                    /\ Pending' # Pending]_vars
    /\ \A p \in 1..MaxRuns :
          (p \in DOMAIN program /\ program[p].terminate)
              ~> (p \in DOMAIN program /\ program[p].state = NotRunning)

\* a program that ignored terminate() has been killed by the timer and has exited
StoppedProgramKilled ==
    \E p \in DOMAIN program :
        /\ program[p].terminate
        /\ program[p].kill
        /\ program[p].state = NotRunning
        /\ Pending = {}

\* C27: the force-kill scheduled by a stop of program P only ever kills P: when
\* a timer fires, kill() is called on no program but the one that was running
\* when the timer was scheduled.
ForceKillOnlyItsProgram ==
    [][\A p \in DOMAIN program :
          (program'[p].kill /\ ~program[p].kill) =>
              /\ Pending # {}
              /\ timers[NextTimer].scheduled_for = p]_vars

\* C30: the Run button is enabled only if a compilation has finished
\* successfully and neither a compilation nor an execution is in progress.
RunButtonOnlyAfterSuccess ==
    run_button =>
        /\ \E i \in Finished : signals[i].success
        /\ ~compilation_in_progress
        /\ ~execution_in_progress

-----------------------------------------------------------------------------
(* Properties of placeholder resolution *)

\* The pairs <<a, x>> where block x is both the INNER peer and the BOTTOM peer
\* of another block a.
InnerAndBottomPeers ==
    {ax \in Created \X Created :
        /\ ax[1] # ax[2]
        /\ connected_blocks[ax[1]][INNER] = ax[2]
        /\ connected_blocks[ax[1]][BOTTOM] = ax[2]}

\* C22: INNER is resolved before BOTTOM over one visited set.  When block x is
\* both the INNER peer and the BOTTOM peer of block a, generate_code of a at
\* any indent expands x exactly once, and returns a's own fragment with x's
\* text, generated at indent + 4, in the INNER position and nothing in the
\* BOTTOM position.
SharedPeerGeneratedInnerOnly ==
    \A ax \in InnerAndBottomPeers, indent \in {0, 4} :
        LET r == BlockGenerateCode(ax[1], indent, {}, <<>>, kind, connected_blocks)
            inner == BlockGenerateCode(ax[2], indent + 4, {ax[1]}, <<>>, kind,
                                       connected_blocks)
            own == GenerateCodeSelf(ax[1], indent, kind, connected_blocks)
        IN  StuckMains(r.visits, kind, connected_blocks) = <<>> =>
                /\ inner.code # <<>>
                /\ r.code = Replace(Replace(own, INNER_CODE, inner.code), BOTTOM_CODE, <<>>)
                /\ Cardinality({i \in DOMAIN r.visits :
                                   r.visits[i] = Visit(ax[2], TRUE)}) = 1
                /\ Cardinality({i \in DOMAIN r.visits :
                                   r.visits[i] = Visit(ax[2], FALSE)}) >= 1

\* a MainFunctionBlock whose INNER peer and BOTTOM peer are one ReturnBlock, shown
MainHoldsReturnTwice ==
    /\ pc = "idle"
    /\ \E ax \in InnerAndBottomPeers :
        /\ kind[ax[1]] = "MainFunctionBlock"
        /\ kind[ax[2]] = "ReturnBlock"
        /\ blocks = <<ax[1], ax[2]>>
        /\ connected_blocks[ax[2]][BOTTOM] = None
        /\ code = <<"int main() {", NL, "    return 0;", NL, "}", NL, NL>>

-----------------------------------------------------------------------------
(* Properties of indentation *)

\* The header line of a block of kind k that has a closing-brace line.
Header(k) ==
    IF k = "MainFunctionBlock" THEN "int main() {"
    ELSE IF k = "IfBlock" THEN "if (x == 0) {"
    ELSE "else {"

\* The pairs <<b, d>>: block b is reached from the blocks of S over d INNER
\* links and any number of BOTTOM links, in at most n links.
RECURSIVE ReachedAt(_, _)
ReachedAt(S, n) ==
    IF n = 0 THEN S
    ELSE ReachedAt(S \cup {<<connected_blocks[bd[1]][INNER], bd[2] + 1>> :
                             bd \in {x \in S : /\ connected_blocks[x[1]][INNER] # None
                                               /\ x[2] < MaxBlocks}}
                     \cup {<<connected_blocks[bd[1]][BOTTOM], bd[2]>> :
                             bd \in {x \in S : connected_blocks[x[1]][BOTTOM] # None}},
                   n - 1)

Reached(root) == ReachedAt({<<root, 0>>}, 2 * MaxBlocks)

\* Every block reached from root is reached at one depth only.
OneDepth(root) ==
    \A x \in Reached(root), y \in Reached(root) : x[1] = y[1] => x[2] = y[2]

Count(text, token) == Cardinality({i \in DOMAIN text : text[i] = token})

-----------------------------------------------------------------------------
(* Properties of the ports *)

\* C24: a block is linked only at ports its kind enables: connected_blocks[INNER]
\* is set only on If, Else, For, While, FunctionDeclaration and MainFunction
\* blocks, and connected_blocks[LEFT] and [RIGHT] only on Operator,
\* LogicalOperator, ArrayAccess and Ternary blocks.
LinksOnlyAtEnabledPorts ==
    \A b \in Created :
        /\ connected_blocks[b][INNER] # None =>
              kind[b] \in {"IfBlock", "ElseBlock", "ForLoopBlock", "WhileLoopBlock",
                           "FunctionDeclarationBlock", "MainFunctionBlock"}
        /\ (connected_blocks[b][LEFT] # None \/ connected_blocks[b][RIGHT] # None) =>
              kind[b] \in {"OperatorBlock", "LogicalOperatorBlock", "ArrayAccessBlock",
                           "TernaryOperatorBlock"}

\* connect_to has linked main at INNER, and an operator at LEFT to another's RIGHT
InnerAndSideLinked ==
    /\ connects = 2
    /\ \E m \in Created, o \in Created, q \in Created :
          /\ kind[m] = "MainFunctionBlock"
          /\ connected_blocks[m][INNER] = o
          /\ connected_blocks[o][LEFT] = q
          /\ connected_blocks[q][RIGHT] = o

-----------------------------------------------------------------------------
(* Properties of deletion and of the sections *)

\* C25: only blocks of the manager's collection contribute to the generated
\* code: every block whose fragment the last pass produced is in
\* BlockManager.blocks, whatever has been deleted.
OnlyCollectionBlocksGenerated ==
    pc = "idle" =>
        \A i \in DOMAIN visits :
            visits[i].fresh => InList(blocks, visits[i].block)

\* C26: in the generated text every include directive line precedes every
\* function or entry-point definition.
IncludesPrecedeDefinitions ==
    pc = "idle" =>
        \A i \in DOMAIN code, j \in DOMAIN code :
            (code[i] = "#include <stdio.h>" /\ code[j] = "int main() {") => i < j

-----------------------------------------------------------------------------
(* Properties of undo and redo *)

\* C28: undo restores the previous state.  The first undo of a run follows an
\* add_block or a delete_selected, whose snapshot held the blocks now on the
\* canvas (and the deleted one): that undo leaves the manager's collection not
\* empty, holding at least those blocks, and the scene holding the same blocks.
UndoRestoresSnapshot ==
    [][(loads = 0 /\ undo_stack # <<>> /\ Undo) =>
          /\ blocks' # <<>>
          /\ \A i \in DOMAIN blocks : InList(blocks', blocks[i])
          /\ scene_blocks' = {blocks'[i] : i \in DOMAIN blocks'}]_vars

\* C29: undo followed by redo is a round trip.  An undo shrinks the undo stack
\* by one and leaves the undone state on top of the redo stack, from where a
\* redo can take it.
UndoMovesEntryToRedo ==
    [][(undo_stack # <<>> /\ Undo) =>
          /\ Len(undo_stack') = Len(undo_stack) - 1
          /\ redo_stack' = Append(redo_stack, BlocksRef)]_vars

=============================================================================
